---- MODULE Spec2Model ----
(***************************************************************************)
(* Model of the camera MAVLink bridge (src/src/main.rs): the event loop    *)
(* of main, handle_mavlink and the MavLinkConnection methods.              *)
(*                                                                         *)
(* Time is counted in ticks of 250 ms.  The program reads its clock only   *)
(* through last_heartbeat.elapsed(), so the clock state is that elapsed    *)
(* time.  Time passes only while the program blocks in the serial port:    *)
(* a read returns after at most the port timeout, a write that times out   *)
(* takes the port timeout, a write that succeeds or fails at once takes    *)
(* no tick (a frame is under 1 ms at 921600 baud).                         *)
(***************************************************************************)
EXTENDS Integers, Sequences, FiniteSets, TLC

VARIABLES
    sequence_number,  \* MavLinkConnection.sequence_number (u8)
    elapsed,          \* MavLinkConnection.last_heartbeat.elapsed(), in ticks
    pc,               \* position of the program in main / handle_mavlink
    request,          \* (header, message) returned by the last read, if any
    tx,               \* frame put on the wire by the last step, or NoFrame
    prev,             \* header of the last frame on the wire before the last
                      \* step; forgotten once more than MaxFailed sends failed
    failed_since,     \* sends that timed out or failed since the last frame
    since_rx,         \* messages put on the wire since the last read returned
    hb_age,           \* ticks since the last Heartbeat frame (or since start)
    hb_trouble,       \* worst outcome of a send since that Heartbeat
    returned,         \* what the last call of a MavLinkConnection method returned
    codec_result,     \* what the codec (write_v2_msg, read_v2_msg) returned to
                      \* that call, if the call used the codec
    text,             \* the argument of a call of mav_str
    buffer            \* the array that call returned, if it returned

vars == <<sequence_number, elapsed, pc, request, tx, prev, failed_since,
          since_rx, hb_age, hb_trouble, returned, codec_result, text, buffer>>

\* the state of a call of mav_str
strvars == <<text, buffer>>

----------------------------------------------------------------------------
(* Bounds of the model *)

\* elapsed and hb_age saturate here (beyond every threshold the code tests)
MaxElapsed == 7
\* prev is kept over at most this many sends that time out or fail
MaxFailed == 2
\* since_rx keeps the first MaxSinceRx messages
MaxSinceRx == 2
\* mav_str is called with texts of up to MaxTextLen bytes
MaxTextLen == 34

(* Program constants, in ticks of 250 ms *)

\* Duration::from_secs(1)
HeartbeatPeriod == 4
\* .timeout(Duration::from_millis(500)): the port's read and write timeout
PortTimeout == 2
\* u8
SeqModulus == 256
\* system_id: 1
LocalSystemId == 1
\* MavComponent::MAV_COMP_ID_CAMERA as u8
MAV_COMP_ID_CAMERA == 100
\* [u8; 32]
NameWidth == 32

Min(a, b) == IF a < b THEN a ELSE b

\* a clock reading d ticks later (saturating)
Later(e, d) == Min(e + d, MaxElapsed)

----------------------------------------------------------------------------
(* Messages *)

\* the commands handle_mavlink names with an unfinished arm
TodoCommands ==
    { "MAV_CMD_CAMERA_STOP_TRACKING", "MAV_CMD_CAMERA_TRACK_POINT",
      "MAV_CMD_CAMERA_TRACK_RECTANGLE", "MAV_CMD_REQUEST_CAMERA_IMAGE_CAPTURE",
      "MAV_CMD_REQUEST_CAMERA_SETTINGS", "MAV_CMD_RESET_CAMERA_SETTINGS",
      "MAV_CMD_SET_CAMERA_FOCUS", "MAV_CMD_SET_CAMERA_MODE",
      "MAV_CMD_SET_CAMERA_ZOOM", "MAV_CMD_VIDEO_START_CAPTURE",
      "MAV_CMD_VIDEO_STOP_CAPTURE", "MAV_CMD_REQUEST_CAMERA_CAPTURE_STATUS" }

\* commands that reach the `_` arm
OtherCommands == { "MAV_CMD_NAV_WAYPOINT", "MAV_CMD_COMPONENT_ARM_DISARM" }

\* the commands whose arm sends an acknowledgement
AckedCommands == {"MAV_CMD_REQUEST_CAMERA_INFORMATION"} \cup OtherCommands

MavCmd == {"MAV_CMD_REQUEST_CAMERA_INFORMATION"} \cup TodoCommands \cup OtherCommands

\* header of the frames of a ground station
GcsHeader == [system_id |-> 255, component_id |-> 190]
\* header of a second peer, for the commands whose arm reads the header
PeerHeader == [system_id |-> 190, component_id |-> 255]

Request(header, message) ==
    [kind |-> "REQUEST", header |-> header, message |-> message]

\* what the peer can send
InboundFrames ==
    { Request(GcsHeader, m) : m \in {[kind |-> "HEARTBEAT"], [kind |-> "SYS_STATUS"]} }
    \cup { Request(GcsHeader, [kind |-> "COMMAND_INT", command |-> c]) : c \in MavCmd }
    \cup { Request(PeerHeader, [kind |-> "COMMAND_INT", command |-> c]) :
                c \in AckedCommands }

NoFrame == [kind |-> "NONE"]
NoRequest == [kind |-> "NONE"]
NoTrouble == "Sent"

Outcomes == {"Sent", "TimedOut", "Fatal"}

\* no method of the connection has returned yet
NoReturn == "none"
\* the call did not use the codec
NoCodecCall == "none"

----------------------------------------------------------------------------
(* MavLinkConnection *)

\* wrapping_add stopping at the largest u8 (saturating_add)
wrapping_add_saturating(x) == IF x + 1 < SeqModulus THEN x + 1 ELSE x

\* u8::wrapping_add(1)
wrapping_add(x) == (x + 1) % SeqModulus

\* the header of the next outbound frame
mavlink_header(seq) ==
    [system_id |-> LocalSystemId, component_id |-> MAV_COMP_ID_CAMERA,
     sequence |-> seq]

mavlink_heartbeat_message ==
    [kind |-> "HEARTBEAT", custom_mode |-> 0, mavtype |-> "MAV_TYPE_CAMERA",
     autopilot |-> "MAV_AUTOPILOT_INVALID", base_mode |-> {},
     system_status |-> "MAV_STATE_ACTIVE", mavlink_version |-> 0]

\* acknowledge with the two target fields exchanged
acknowledge_swapped_targets(header, command, result) ==
    [kind |-> "COMMAND_ACK", command |-> command, result |-> result,
     target_component |-> header.system_id,
     target_system |-> header.component_id]

\* the closure of handle_mavlink building the COMMAND_ACK of a request
acknowledge(header, command, result) ==
    [kind |-> "COMMAND_ACK", command |-> command, result |-> result,
     target_component |-> header.component_id,
     target_system |-> header.system_id]

Frame(header, message) == [kind |-> "FRAME", header |-> header, message |-> message]

\* the header of the last frame on the wire
LastHeader == IF tx # NoFrame THEN tx.header ELSE prev

\* the worse of two send outcomes
Worse(a, b) ==
    IF "Fatal" \in {a, b} THEN "Fatal"
    ELSE IF "TimedOut" \in {a, b} THEN "TimedOut" ELSE "Sent"

\* ticks a write takes
WriteTicks(outcome) == IF outcome = "TimedOut" THEN PortTimeout ELSE 0

\* the ControlFlow write_gracefully returns for the outcome of the write
write_result(outcome) ==
    CASE outcome = "Sent" -> "Continue(length)"
      [] outcome = "TimedOut" -> "BreakOk"
      [] outcome = "Fatal" -> "BreakErr"

\* write_gracefully advancing the counter only when the write succeeded
write_gracefully_seq_on_success(message, outcome) ==
    /\ IF outcome = "Sent"
       THEN /\ sequence_number' = wrapping_add(sequence_number)
            /\ tx' = Frame(mavlink_header(sequence_number), message)
            /\ prev' = LastHeader
            /\ failed_since' = 0
            /\ since_rx' = IF Len(since_rx) < MaxSinceRx
                           THEN Append(since_rx, message) ELSE since_rx
       ELSE /\ sequence_number' = sequence_number
            /\ tx' = NoFrame
            /\ prev' = IF failed_since < MaxFailed THEN LastHeader ELSE NoFrame
            /\ failed_since' = Min(failed_since + 1, MaxFailed)
            /\ since_rx' = since_rx
    /\ returned' = write_result(outcome)
    /\ codec_result' = outcome
    /\ IF outcome = "Sent" /\ message.kind = "HEARTBEAT"
       THEN hb_age' = 0 /\ hb_trouble' = NoTrouble
       ELSE /\ hb_age' = Later(hb_age, WriteTicks(outcome))
            /\ hb_trouble' = Worse(hb_trouble, outcome)

\* write_gracefully(message) ending with `outcome`: the header is allocated
\* and the counter advanced before the write; the frame reaches the wire
\* only when the write succeeds
write_gracefully(message, outcome) ==
    /\ sequence_number' = wrapping_add(sequence_number)
    /\ IF outcome = "Sent"
       THEN /\ tx' = Frame(mavlink_header(sequence_number), message)
            /\ prev' = LastHeader
            /\ failed_since' = 0
            /\ since_rx' = IF Len(since_rx) < MaxSinceRx
                           THEN Append(since_rx, message) ELSE since_rx
       ELSE /\ tx' = NoFrame
            /\ prev' = IF failed_since < MaxFailed THEN LastHeader ELSE NoFrame
            /\ failed_since' = Min(failed_since + 1, MaxFailed)
            /\ since_rx' = since_rx
    /\ returned' = write_result(outcome)
    /\ codec_result' = outcome
    /\ IF outcome = "Sent" /\ message.kind = "HEARTBEAT"
       THEN hb_age' = 0 /\ hb_trouble' = NoTrouble
       ELSE /\ hb_age' = Later(hb_age, WriteTicks(outcome))
            /\ hb_trouble' = Worse(hb_trouble, outcome)

\* a step that sends nothing and takes d ticks
NoWrite(d) ==
    /\ tx' = NoFrame
    /\ prev' = LastHeader
    /\ hb_age' = Later(hb_age, d)
    /\ UNCHANGED <<sequence_number, failed_since, hb_trouble>>

----------------------------------------------------------------------------
(* Control flow of main and handle_mavlink *)

\* handle_mavlink attempting the heartbeat after the read
handle_mavlink_heartbeat_after_read ==
    <<"read_gracefully", "attempt_heartbeat", "dispatch">>

\* the statements of handle_mavlink, in order
handle_mavlink == <<"attempt_heartbeat", "read_gracefully", "dispatch">>

\* the first statement of an iteration of main's loop
LoopStart == handle_mavlink[1]

\* Arm without the `_` arm of the inner match: a command that is not named
\* is dropped like a message of another kind
Arm_without_default(req) ==
    IF req.message.kind # "COMMAND_INT" THEN handle_mavlink[1]
    ELSE IF req.message.command = "MAV_CMD_REQUEST_CAMERA_INFORMATION"
         THEN "ack_accepted"
    ELSE IF req.message.command \in TodoCommands THEN "panicked"
    ELSE handle_mavlink[1]

\* Arm with the catch-all arm of the outer match unfinished (`_ => todo!()`)
Arm_other_kinds_todo(req) ==
    IF req.message.kind = "HEARTBEAT" THEN handle_mavlink[1]
    ELSE IF req.message.kind # "COMMAND_INT" THEN "panicked"
    ELSE IF req.message.command = "MAV_CMD_REQUEST_CAMERA_INFORMATION"
         THEN "ack_accepted"
    ELSE IF req.message.command \in TodoCommands THEN "panicked"
    ELSE "ack_unsupported"

\* the arm of `match command.command` (and of the outer match) that a
\* received message selects; an arm that is todo!() panics
Arm(req) ==
    IF req.message.kind # "COMMAND_INT" THEN LoopStart
    ELSE IF req.message.command = "MAV_CMD_REQUEST_CAMERA_INFORMATION"
         THEN "ack_accepted"
    ELSE IF req.message.command \in TodoCommands THEN "panicked"
    ELSE "ack_unsupported"

\* the position after statement `stage` returned normally
StageAfter(stage, req) ==
    LET i == CHOOSE k \in 1..Len(handle_mavlink) : handle_mavlink[k] = stage
        n == IF i < Len(handle_mavlink) THEN handle_mavlink[i + 1] ELSE LoopStart
    IN  IF n # "dispatch" THEN n
        ELSE IF req = NoRequest THEN LoopStart
        ELSE Arm(req)

\* Propagate without the `?`: the result of the send is dropped
Propagate_dropped(outcome, cont) == cont

\* Propagate taking every Break for Break(Ok(())): a fatal error ends the
\* iteration only
Propagate_fatal_continues(outcome, cont) ==
    IF outcome = "Sent" THEN cont ELSE handle_mavlink[1]

\* `?` on the result of a send in handle_mavlink, then main's `if let`:
\* Continue goes on to `cont`, Break(Ok) ends the iteration, Break(Err)
\* reaches main's todo!()
Propagate(outcome, cont) ==
    CASE outcome = "Sent" -> cont
      [] outcome = "TimedOut" -> LoopStart
      [] outcome = "Fatal" -> "panicked"

\* DiscardResult with a `?` after the call
DiscardResult_propagated(outcome, cont) == Propagate(outcome, cont)

\* `connection.attempt_heartbeat();`: the ControlFlow the call returns is
\* dropped, handle_mavlink goes on to its next statement whatever it was
DiscardResult(outcome, cont) == cont

\* read_error taking a timeout for any other I/O error
read_error_timeout_is_error(error) ==
    CASE error = "TimedOut" -> "BreakErr"
      [] error = "Io" -> "BreakErr"
      [] error = "Parse" -> "todo"

\* read_error skipping a frame that does not parse
read_error_parse_is_recoverable(error) ==
    CASE error = "TimedOut" -> "BreakOk"
      [] error = "Io" -> "BreakErr"
      [] error = "Parse" -> "BreakOk"

\* read_gracefully's classification of a failed read
read_error(error) ==
    CASE error = "TimedOut" -> "BreakOk"
      [] error = "Io" -> "BreakErr"
      [] error = "Parse" -> "todo"

\* main's loop on what handle_mavlink returned after a failed read: only
\* Break(Err) reaches main's todo!(); read_gracefully's own todo!() panics
main_loop(flow) == IF flow = "BreakOk" THEN LoopStart ELSE "panicked"

\* HeartbeatDue with > for >=
HeartbeatDue_after(e) == e > HeartbeatPeriod

\* self.last_heartbeat.elapsed() >= Duration::from_secs(1)
HeartbeatDue(e) == e >= HeartbeatPeriod

----------------------------------------------------------------------------
(* mav_str *)

\* no array was returned
NoBuffer == <<>>

\* mav_str asserting that the text is shorter than the array, as the message
\* of its assertion says
mav_str_less_than_width(t) ==
    IF Len(t) < NameWidth
    THEN [i \in 1..NameWidth |-> IF i <= Len(t) THEN t[i] ELSE 0]
    ELSE NoBuffer

\* mav_str(text): the assertion, then an array of zeros with the text copied
\* to its start; NoBuffer when the assertion fails (the call panics)
mav_str(t) ==
    IF Len(t) <= NameWidth
    THEN [i \in 1..NameWidth |-> IF i <= Len(t) THEN t[i] ELSE 0]
    ELSE NoBuffer

\* sample bytes: NUL, a letter, the largest byte
TextBytes == {0, 97, 255}

\* the texts mav_str is called with: every length up to MaxTextLen, two
\* bytes alternating
Texts ==
    { [i \in 1..n |-> IF i % 2 = 1 THEN a ELSE b] :
        n \in 0..MaxTextLen, a \in TextBytes, b \in TextBytes }

----------------------------------------------------------------------------
(* MavLinkConnection::new, attempt_heartbeat, the steps of handle_mavlink *)

\* last_heartbeat_elapsed with last_heartbeat set whatever the send returned
last_heartbeat_elapsed_always_set(outcome, e) == 0

\* last_heartbeat.elapsed() after the send of attempt_heartbeat: the `?`
\* returns before `self.last_heartbeat = Instant::now()` unless the write
\* succeeded, and the clock then runs on
last_heartbeat_elapsed(outcome, e) ==
    IF outcome = "Sent" THEN 0 ELSE Later(e, WriteTicks(outcome))

Init ==
    /\ sequence_number = 0
    /\ elapsed = 0
    /\ pc = LoopStart
    /\ request = NoRequest
    /\ tx = NoFrame
    /\ prev = NoFrame
    /\ failed_since = 0
    /\ since_rx = <<>>
    /\ hb_age = 0
    /\ hb_trouble = NoTrouble
    /\ returned = NoReturn
    /\ codec_result = NoCodecCall
    /\ text = <<>>
    /\ buffer = NoBuffer

\* attempt_heartbeat, its result discarded by handle_mavlink
AttemptHeartbeat ==
    /\ pc = "attempt_heartbeat"
    /\ IF HeartbeatDue(elapsed)
       THEN \E outcome \in Outcomes :
                /\ write_gracefully(mavlink_heartbeat_message, outcome)
                /\ elapsed' = last_heartbeat_elapsed(outcome, elapsed)
                /\ pc' = DiscardResult(outcome,
                                       StageAfter("attempt_heartbeat", request))
       ELSE /\ NoWrite(0)
            /\ returned' = "Continue(0)"
            /\ codec_result' = NoCodecCall
            /\ pc' = DiscardResult("Sent",
                                   StageAfter("attempt_heartbeat", request))
            /\ UNCHANGED <<elapsed, since_rx>>
    /\ UNCHANGED <<request, strvars>>

\* read_gracefully timing out: Break(Ok(())), the loop goes round
ReadTimedOut ==
    /\ pc = "read_gracefully"
    /\ NoWrite(PortTimeout)
    /\ elapsed' = Later(elapsed, PortTimeout)
    /\ request' = NoRequest
    /\ since_rx' = <<>>
    /\ returned' = read_error("TimedOut")
    /\ codec_result' = "TimedOut"
    /\ UNCHANGED strvars
    /\ pc' = main_loop(read_error("TimedOut"))

\* read_gracefully failing with another I/O error (Break(Err), main's
\* todo!()) or with a parse error (read_gracefully's todo!())
ReadFailed ==
    /\ pc = "read_gracefully"
    /\ \E d \in 0..PortTimeout, error \in {"Io", "Parse"} :
        /\ NoWrite(d)
        /\ elapsed' = Later(elapsed, d)
        /\ returned' = read_error(error)
        /\ codec_result' = error
        /\ pc' = main_loop(read_error(error))
    /\ request' = NoRequest
    /\ since_rx' = <<>>
    /\ UNCHANGED strvars

\* read_gracefully returning a message, and the match on it
ReadMessage ==
    /\ pc = "read_gracefully"
    /\ \E d \in 0..PortTimeout, received \in InboundFrames :
        /\ NoWrite(d)
        /\ elapsed' = Later(elapsed, d)
        /\ request' = received
        /\ pc' = StageAfter("read_gracefully", received)
    /\ since_rx' = <<>>
    /\ returned' = "Continue(message)"
    /\ codec_result' = "Received"
    /\ UNCHANGED strvars

\* the MAV_CMD_REQUEST_CAMERA_INFORMATION arm: the acknowledgement
AcknowledgeAccepted ==
    /\ pc = "ack_accepted"
    /\ \E outcome \in Outcomes :
        /\ write_gracefully(acknowledge(request.header, request.message.command,
                                        "MAV_RESULT_ACCEPTED"), outcome)
        /\ elapsed' = Later(elapsed, WriteTicks(outcome))
        /\ pc' = Propagate(outcome, "camera_information")
    /\ UNCHANGED <<request, strvars>>

\* the MAV_CMD_REQUEST_CAMERA_INFORMATION arm: building the
\* CAMERA_INFORMATION_DATA evaluates `resolution_h: todo!()`, which panics
\* before mav_str and write_gracefully are called
CameraInformation ==
    /\ pc = "camera_information"
    /\ NoWrite(0)
    /\ pc' = "panicked"
    /\ UNCHANGED <<elapsed, request, since_rx, returned, codec_result, strvars>>

\* the `_` arm: the acknowledgement, then Continue(())
AcknowledgeUnsupported ==
    /\ pc = "ack_unsupported"
    /\ \E outcome \in Outcomes :
        /\ write_gracefully(acknowledge(request.header, request.message.command,
                                        "MAV_RESULT_UNSUPPORTED"), outcome)
        /\ elapsed' = Later(elapsed, WriteTicks(outcome))
        /\ pc' = Propagate(outcome, LoopStart)
    /\ UNCHANGED <<request, strvars>>

Next ==
    \/ AttemptHeartbeat
    \/ ReadTimedOut
    \/ ReadFailed
    \/ ReadMessage
    \/ AcknowledgeAccepted
    \/ CameraInformation
    \/ AcknowledgeUnsupported

Spec == Init /\ [][Next]_vars

----------------------------------------------------------------------------
(* A call of mav_str on its own *)

MavStrInit ==
    /\ text \in Texts
    /\ buffer = NoBuffer
    /\ pc = "mav_str"
    /\ sequence_number = 0
    /\ elapsed = 0
    /\ request = NoRequest
    /\ tx = NoFrame
    /\ prev = NoFrame
    /\ failed_since = 0
    /\ since_rx = <<>>
    /\ hb_age = 0
    /\ hb_trouble = NoTrouble
    /\ returned = NoReturn
    /\ codec_result = NoCodecCall

\* the call: it returns the array, or panics in its assertion
MavStrCall ==
    /\ pc = "mav_str"
    /\ buffer' = mav_str(text)
    /\ pc' = IF mav_str(text) = NoBuffer THEN "panicked" ELSE "mav_str_returned"
    /\ UNCHANGED <<text, sequence_number, elapsed, request, tx, prev,
                   failed_since, since_rx, hb_age, hb_trouble, returned,
                   codec_result>>

MavStrNext == MavStrCall

MavStrSpec == MavStrInit /\ [][MavStrNext]_vars

----------------------------------------------------------------------------
(* Properties *)

IsCommandInt(req) == req # NoRequest /\ req.message.kind = "COMMAND_INT"

\* the acknowledgement of the request in hand with this result
AckOf(result) == acknowledge(request.header, request.message.command, result)

\* the dispatch of the request in hand has ended (the iteration is over
\* or the program has panicked)
DispatchEnded == request # NoRequest /\ pc \in {LoopStart, "panicked"}

C2_AckOrdering_AsStated ==
    (IsCommandInt(request) /\ Len(since_rx) >= 1)
        => /\ since_rx[1].kind = "COMMAND_ACK"
           /\ since_rx[1].command = request.message.command
           /\ \A i \in 1..Len(since_rx) :
                since_rx[i].kind = "CAMERA_INFORMATION" => i = 2

\* C2 amended: a CommandAck that is put on the wire is the first frame after
\* its request was received (no Heartbeat or other frame in between, and
\* none while the ack is still to be sent), and a follow-up that is put on
\* the wire is the frame right after the ack; an ack whose send times out is
\* not sent again, so the next frame can then be a Heartbeat.
C2_AckOrdering ==
    /\ (pc \in {"ack_accepted", "ack_unsupported"}
            => IsCommandInt(request) /\ since_rx = <<>>)
    /\ \A i \in 1..Len(since_rx) :
        /\ since_rx[i].kind = "COMMAND_ACK"
            => /\ i = 1
               /\ IsCommandInt(request)
               /\ since_rx[i].command = request.message.command
        /\ since_rx[i].kind = "CAMERA_INFORMATION"
            => i = 2 /\ since_rx[1].kind = "COMMAND_ACK"

\* an ack was put on the wire, and a Heartbeat only after it
C2_Witness ==
    /\ IsCommandInt(request)
    /\ Len(since_rx) = 2
    /\ since_rx[1] = AckOf("MAV_RESULT_UNSUPPORTED")
    /\ since_rx[2].kind = "HEARTBEAT"

\* C3: every CommandAck put on the wire carries the command of the CommandInt
\* in hand and, as targets, the system and component of that request's header.
C3_EchoAndTargeting ==
    (tx # NoFrame /\ tx.message.kind = "COMMAND_ACK")
        => /\ IsCommandInt(request)
           /\ tx.message.command = request.message.command
           /\ tx.message.target_system = request.header.system_id
           /\ tx.message.target_component = request.header.component_id

\* acks with either result, to either peer, have been put on the wire
C3_Witness ==
    /\ tx # NoFrame /\ tx.message.kind = "COMMAND_ACK"
    /\ tx.message.result = "MAV_RESULT_ACCEPTED"
    /\ tx.message.target_system = 190
    /\ tx.message.target_component = 255
    /\ tx.message.command = "MAV_CMD_REQUEST_CAMERA_INFORMATION"

\* C4 as stated: a REQUEST_CAMERA_INFORMATION whose sends do not fail is
\* answered by two frames, a CommandAck with result ACCEPTED and then a
\* CameraInformation, and the loop goes on to its next iteration.
C4_CameraInformationReply ==
    (/\ IsCommandInt(request)
     /\ request.message.command = "MAV_CMD_REQUEST_CAMERA_INFORMATION"
     /\ DispatchEnded
     /\ failed_since = 0)
        => /\ pc = LoopStart
           /\ Len(since_rx) = 2
           /\ since_rx[1] = AckOf("MAV_RESULT_ACCEPTED")
           /\ since_rx[2].kind = "CAMERA_INFORMATION"

IsOtherCommand(req) ==
    IsCommandInt(req) /\ req.message.command \in OtherCommands

\* C5 as stated: every CommandInt of the `any other` row is answered by
\* exactly one CommandAck with result UNSUPPORTED on the wire, and the loop
\* goes on.
C5_OtherCommand_AsStated ==
    (IsOtherCommand(request) /\ DispatchEnded)
        => /\ pc = LoopStart
           /\ since_rx = <<AckOf("MAV_RESULT_UNSUPPORTED")>>

\* C5 amended: for every CommandInt of the `any other` row the program makes
\* exactly one send, of a CommandAck with result UNSUPPORTED, which takes one
\* sequence number.  When the send succeeds that ack is the one frame put on
\* the wire, nothing else changes and the loop goes on to its next
\* iteration; when it times out no frame is put on the wire and the loop goes
\* on without sending the ack again; when it fails otherwise the program
\* stops.  No follow-up is sent in any case.
C5_OtherCommand ==
    /\ [][(pc = "read_gracefully" /\ IsOtherCommand(request'))
            => /\ pc' = "ack_unsupported"
               /\ tx' = NoFrame
               /\ sequence_number' = sequence_number]_vars
    /\ [][pc = "ack_unsupported"
            => /\ IsOtherCommand(request)
               /\ request' = request
               /\ sequence_number' = (sequence_number + 1) % SeqModulus
               /\ pc' \in {LoopStart, "panicked"}
               /\ tx' # NoFrame
                    => /\ tx' = Frame(mavlink_header(sequence_number),
                                      AckOf("MAV_RESULT_UNSUPPORTED"))
                       /\ since_rx' = <<tx'.message>>
                       /\ pc' = LoopStart
                       /\ elapsed' = elapsed
               /\ tx' = NoFrame => since_rx' = <<>>
               /\ pc' = "panicked" => tx' = NoFrame]_vars

\* the ack of a command of the `any other` row is on the wire and the next
\* iteration is about to start
C5_Witness ==
    /\ IsOtherCommand(request)
    /\ pc = LoopStart
    /\ tx # NoFrame
    /\ tx.message = AckOf("MAV_RESULT_UNSUPPORTED")
    /\ since_rx = <<tx.message>>

ZoomFocusTrackCommands ==
    { "MAV_CMD_SET_CAMERA_ZOOM", "MAV_CMD_SET_CAMERA_FOCUS",
      "MAV_CMD_CAMERA_TRACK_POINT", "MAV_CMD_CAMERA_TRACK_RECTANGLE",
      "MAV_CMD_CAMERA_STOP_TRACKING" }

\* C6 as stated: a SET_CAMERA_ZOOM, SET_CAMERA_FOCUS or TRACK_* CommandInt is
\* answered by one CommandAck with result UNSUPPORTED and no follow-up, and
\* the loop keeps running.
C6_ZoomFocusTrackUnsupported ==
    (/\ IsCommandInt(request)
     /\ request.message.command \in ZoomFocusTrackCommands
     /\ DispatchEnded)
        => /\ pc = LoopStart
           /\ since_rx = <<AckOf("MAV_RESULT_UNSUPPORTED")>>

\* the results an acknowledgement can carry
MavResult ==
    { "MAV_RESULT_ACCEPTED", "MAV_RESULT_TEMPORARILY_REJECTED",
      "MAV_RESULT_DENIED", "MAV_RESULT_UNSUPPORTED", "MAV_RESULT_FAILED" }

\* C7 as stated: by the time the program reads again (or has stopped), every
\* CommandInt it received has had a CommandAck put on the wire.
C7_EveryCommandIntAnswered ==
    (IsCommandInt(request) /\ pc \in {"read_gracefully", "panicked"})
        => \E i \in 1..Len(since_rx), result \in MavResult :
                since_rx[i] = AckOf(result)

\* C8: the follow-up of a request is reached, and a CameraInformation is on
\* the wire, only right after the CommandAck with result ACCEPTED of that
\* request was put on the wire: not after an ack whose send timed out or
\* failed, and not after an ack with another result.
C8_FollowUpOnlyAfterAcceptedAck ==
    /\ pc = "camera_information"
        => /\ IsCommandInt(request)
           /\ tx # NoFrame
           /\ tx.message = AckOf("MAV_RESULT_ACCEPTED")
           /\ since_rx = <<tx.message>>
    /\ \A i \in 1..Len(since_rx) :
        since_rx[i].kind = "CAMERA_INFORMATION"
            => i > 1 /\ since_rx[i - 1] = AckOf("MAV_RESULT_ACCEPTED")
    /\ (DispatchEnded /\ IsCommandInt(request) /\ since_rx = <<>>)
        => tx = NoFrame

\* the ack of a REQUEST_CAMERA_INFORMATION timed out: the iteration ended
\* with nothing on the wire
C8_Witness ==
    /\ IsCommandInt(request)
    /\ request.message.command = "MAV_CMD_REQUEST_CAMERA_INFORMATION"
    /\ pc = LoopStart
    /\ failed_since > 0
    /\ tx = NoFrame
    /\ since_rx = <<>>

\* the 1.5 s of the heartbeat deadline: the period plus one read timeout
HeartbeatWindow == HeartbeatPeriod + PortTimeout

HeartbeatOnWire == tx # NoFrame /\ tx.message.kind = "HEARTBEAT"

IdleLink == pc # "panicked" /\ request = NoRequest /\ hb_trouble = NoTrouble

\* C10: a read that times out leaves the program running: the step puts
\* nothing on the wire, leaves the sequence counter alone, lets the heartbeat
\* clock run on without setting it, and goes to the heartbeat check of the
\* next iteration, where a Heartbeat that is due is sent; so over a run of
\* reads that time out the program never stops and (its sends succeeding)
\* the last Heartbeat on the wire is never 1.5 s old.
C10_ReadTimeoutIsIdleTick ==
    /\ [][ReadTimedOut
            => /\ pc' = "attempt_heartbeat"
               /\ tx' = NoFrame
               /\ sequence_number' = sequence_number
               /\ elapsed' = Later(elapsed, PortTimeout)
               /\ hb_age' = Later(hb_age, PortTimeout)]_vars
    /\ [][(pc = "attempt_heartbeat" /\ elapsed >= HeartbeatPeriod)
            => /\ sequence_number' = (sequence_number + 1) % SeqModulus
               /\ tx' # NoFrame => HeartbeatOnWire' /\ elapsed' = 0]_vars
    /\ [](IdleLink => hb_age < HeartbeatWindow)

\* the second of two reads in a row that timed out, with the Heartbeat due
C10_Witness ==
    /\ pc = "attempt_heartbeat"
    /\ request = NoRequest
    /\ tx = NoFrame
    /\ sequence_number > 0
    /\ elapsed >= HeartbeatPeriod
    /\ failed_since = 0

----------------------------------------------------------------------------
(* Fatal errors *)

\* the positions at which handle_mavlink sends an acknowledgement
DispatchSends == {"ack_accepted", "ack_unsupported"}

\* C11: a read that fails with an I/O error other than a timeout, and a send
\* of the dispatch of a received command that fails so, stops the program in
\* that very step with no frame put on the wire; and once the program has
\* stopped it takes no further step (no frame is sent, no read is made).
C11_FatalReadOrDispatchSendTerminates ==
    /\ [][(\/ (pc = "read_gracefully" /\ codec_result' = "Io")
            \/ (pc \in DispatchSends /\ codec_result' = "Fatal"))
            => /\ returned' = "BreakErr"
               /\ pc' = "panicked"
               /\ tx' = NoFrame]_vars
    /\ [][pc # "panicked"]_vars

\* the acknowledgement of a command of the `any other` row failed with a
\* fatal error and the program has stopped
C11_Witness ==
    /\ pc = "panicked"
    /\ codec_result = "Fatal"
    /\ returned = "BreakErr"
    /\ IsOtherCommand(request)
    /\ tx = NoFrame

\* C12 as stated: a Heartbeat send at the start of an iteration that fails
\* with an I/O error other than a timeout stops the program: no read is
\* attempted after it.
C12_FatalHeartbeatTerminates ==
    [][(pc = "attempt_heartbeat" /\ codec_result' = "Fatal")
        => pc' = "panicked"]_vars

----------------------------------------------------------------------------
(* attempt_heartbeat and the sequence counter *)

\* C13: attempt_heartbeat, when at least 1 s has elapsed since
\* last_heartbeat, makes exactly one send, of the Heartbeat, and sets
\* last_heartbeat to now only when that send succeeded (after a send that
\* timed out or failed the clock has only run on); when less than 1 s has
\* elapsed it sends nothing, returns Continue(0) and changes neither
\* last_heartbeat nor the sequence counter.
C13_AttemptHeartbeat ==
    /\ [][(pc = "attempt_heartbeat" /\ elapsed >= HeartbeatPeriod)
            => /\ sequence_number' = (sequence_number + 1) % SeqModulus
               /\ returned' \in {"Continue(length)", "BreakOk", "BreakErr"}
               /\ returned' = "Continue(length)"
                    => /\ tx' = Frame(mavlink_header(sequence_number),
                                      mavlink_heartbeat_message)
                       /\ elapsed' = 0
               /\ returned' # "Continue(length)"
                    => /\ tx' = NoFrame
                       /\ elapsed' \in {elapsed, Later(elapsed, PortTimeout)}
                       /\ elapsed' >= HeartbeatPeriod]_vars
    /\ [][(pc = "attempt_heartbeat" /\ elapsed < HeartbeatPeriod)
            => /\ tx' = NoFrame
               /\ returned' = "Continue(0)"
               /\ elapsed' = elapsed
               /\ sequence_number' = sequence_number]_vars

\* a Heartbeat that was due timed out: nothing is on the wire and the
\* Heartbeat is still due
C13_Witness ==
    /\ pc = "read_gracefully"
    /\ returned = "BreakOk"
    /\ tx = NoFrame
    /\ elapsed >= HeartbeatPeriod
    /\ sequence_number > 0

\* the next step calls write_gracefully
IsSend == pc \in DispatchSends \/ (pc = "attempt_heartbeat" /\ HeartbeatDue(elapsed))

\* C14: the counter starts at 0; every call of write_gracefully takes exactly
\* one sequence number: a frame put on the wire carries the counter's value
\* before the call, and the counter afterwards is that value plus 1 modulo
\* 256, whether the write succeeded, timed out or failed; a send that timed
\* out or failed puts nothing on the wire and leaves last_heartbeat alone
\* (the clock only runs on); and no step that is not a send, a read in
\* particular, changes the counter.
C14_SendTakesOneSequenceNumber ==
    /\ sequence_number = 0
    /\ [](sequence_number \in 0..(SeqModulus - 1))
    /\ [][IsSend
            => /\ sequence_number' =
                    IF sequence_number = SeqModulus - 1 THEN 0
                    ELSE sequence_number + 1
               /\ returned' \in {"Continue(length)", "BreakOk", "BreakErr"}
               /\ returned' = "Continue(length)"
                    => tx' # NoFrame /\ tx'.header.sequence = sequence_number
               /\ returned' = "BreakOk"
                    => tx' = NoFrame /\ elapsed' = Later(elapsed, PortTimeout)
               /\ returned' = "BreakErr"
                    => tx' = NoFrame /\ elapsed' = elapsed]_vars
    /\ [][~IsSend => sequence_number' = sequence_number /\ tx' = NoFrame]_vars

\* the acknowledgement that took sequence number 255 timed out: the counter
\* has wrapped to 0 with no frame on the wire
C14_Witness ==
    /\ sequence_number = 0
    /\ returned = "BreakOk"
    /\ IsCommandInt(request)
    /\ pc = LoopStart
    /\ tx = NoFrame
    /\ failed_since > 0

----------------------------------------------------------------------------
(* Messages that are not commands *)

\* a received message that is not a CommandInt
IsIgnoredMessage(req) == req # NoRequest /\ req.message.kind # "COMMAND_INT"

\* C16: the read of a Heartbeat of the peer, or of a message of a kind other
\* than Heartbeat and CommandInt, puts no frame on the wire, leaves the
\* sequence counter alone, does not set the heartbeat clock (it only runs on
\* for the time the read took) and goes to the next iteration; no
\* acknowledgement follows such a message.
C16_OtherMessagesIgnored ==
    /\ [][(pc = "read_gracefully" /\ IsIgnoredMessage(request'))
            => /\ pc' = LoopStart
               /\ tx' = NoFrame
               /\ sequence_number' = sequence_number
               /\ elapsed' \in {Later(elapsed, d) : d \in 0..PortTimeout}
               /\ hb_age' \in {Later(hb_age, d) : d \in 0..PortTimeout}
               /\ since_rx' = <<>>]_vars
    /\ [](IsIgnoredMessage(request)
            => /\ pc \in {"attempt_heartbeat", "read_gracefully"}
               /\ \A i \in 1..Len(since_rx) : since_rx[i].kind = "HEARTBEAT")

\* a message of another kind was read after some frames were sent, and the
\* next iteration is about to start
C16_Witness ==
    /\ request # NoRequest
    /\ request.message.kind = "SYS_STATUS"
    /\ pc = LoopStart
    /\ tx = NoFrame
    /\ sequence_number > 1
    /\ elapsed > 0

----------------------------------------------------------------------------
(* Recording *)

\* C17 as stated: a VIDEO_STOP_CAPTURE CommandInt (no camera is recording:
\* the program never starts a recording) whose sends do not fail is answered
\* by a CommandAck with result ACCEPTED, and the loop goes on to its next
\* iteration.
C17_StopCaptureIdempotent ==
    (/\ IsCommandInt(request)
     /\ request.message.command = "MAV_CMD_VIDEO_STOP_CAPTURE"
     /\ DispatchEnded
     /\ failed_since = 0)
        => /\ pc = LoopStart
           /\ since_rx = <<AckOf("MAV_RESULT_ACCEPTED")>>

----------------------------------------------------------------------------
(* Name fields *)

----------------------------------------------------------------------------
(* A Heartbeat that is due and not sent *)

\* C20: when the Heartbeat is due, attempt_heartbeat makes one send of it;
\* if that send times out or fails, the read of the iteration is made all
\* the same and the Heartbeat is still due; it stays due until a Heartbeat
\* is put on the wire, so every following iteration starts with another
\* attempt; and an iteration makes one attempt at most: a Heartbeat is sent
\* only by the first statement of an iteration, which is never repeated
\* before the read.
C20_HeartbeatRetriedEveryIteration ==
    /\ [][(pc = "attempt_heartbeat" /\ HeartbeatDue(elapsed))
            => /\ codec_result' \in Outcomes
               /\ sequence_number' = (sequence_number + 1) % SeqModulus
               /\ codec_result' = "Sent" <=> HeartbeatOnWire'
               /\ codec_result' # "Sent"
                    => /\ tx' = NoFrame
                       /\ pc' = "read_gracefully"
                       /\ HeartbeatDue(elapsed')]_vars
    /\ [][(HeartbeatDue(elapsed) /\ ~HeartbeatOnWire') => HeartbeatDue(elapsed')]_vars
    /\ [][pc = "attempt_heartbeat" => pc' = "read_gracefully"]_vars
    /\ [][HeartbeatOnWire' => pc = "attempt_heartbeat"]_vars

\* the second attempt in a row has not succeeded either (one of the two
\* failed with a fatal error) and the read is about to be made
C20_Witness ==
    /\ pc = "read_gracefully"
    /\ request = NoRequest
    /\ codec_result = "TimedOut"
    /\ hb_trouble = "Fatal"
    /\ failed_since = 2
    /\ HeartbeatDue(elapsed)

====
